---- MODULE Spec2Model ----
(***************************************************************************)
(* BigQuery MCP server over SSE (src/mcp_sse_server.py).                   *)
(*                                                                         *)
(* The model follows one POST /sse request from the arrival of its body to *)
(* the end of its event stream: event_stream reads the body, parses it,    *)
(* hands it to BigQueryMCPServer.handle_mcp_request, which for tools/call  *)
(* awaits call_tool and one of the four tool methods, and finally yields   *)
(* one "data:" frame.  Python exceptions are explicit: every modelled      *)
(* function returns Return(v) or Raise(e), and every try/except of the     *)
(* source is an operator that turns one into the other.  The warehouse     *)
(* client (google.cloud.bigquery.Client) is a black box whose every call   *)
(* either returns or faults; its answer is chosen by the environment.      *)
(***************************************************************************)
EXTENDS Integers, Sequences, FiniteSets, TLC

VARIABLES
    pc,         \* slot -> position of the request's event_stream coroutine
    body,       \* slot -> bytes of the request body
    locals,     \* slot -> locals of handle_mcp_request held across its await
    answer,     \* slot -> what the warehouse client answered to this request
    calls,      \* slot -> the warehouse client calls this request has made
    dispatched, \* slot -> number of handle_mcp_request invocations
    frames,     \* slot -> SSE frames yielded on this request's stream
    server      \* the BigQueryMCPServer instance: project_id and client

vars == <<pc, body, locals, answer, calls, dispatched, frames, server>>

----------------------------------------------------------------------------
(* Bounds of the model.                                                    *)

NumSlots == 2       \* requests in flight at once under ConcSpec
MaxDatasets == 2    \* datasets in a listing the warehouse returns
MaxPieces == 3      \* pieces a query text of QuerySpec is assembled from

----------------------------------------------------------------------------
(* JSON values as json.loads builds them.  None and JSON null coincide.    *)

Null == [t |-> "null"]
Num(n) == [t |-> "num", n |-> n]
Str(s) == [t |-> "str", s |-> s]        \* a string compared as a whole
Text(cs) == [t |-> "str", cs |-> cs]    \* a string handled by character
Bool(b) == [t |-> "bool", b |-> b]
List == [t |-> "list"]
Obj(f) == [t |-> "obj", f |-> f]

EmptyMap == [k \in {} |-> Null]
EmptyObj == Obj(EmptyMap)

\* A key that is not given; Mk drops such keys when it builds an object.
Absent == [t |-> "absent"]
Mk(full) == Obj([k \in {x \in DOMAIN full : full[x] # Absent} |-> full[k]])

IsDict(v) == v.t = "obj"
IsText(v) == v.t = "str" /\ "cs" \in DOMAIN v

\* dict.get(k, default)
DictGet(d, k, default) == IF k \in DOMAIN d.f THEN d.f[k] ELSE default

\* Python truthiness of a JSON value (the `and limit` of query_bigquery).
Truthy(v) ==
    CASE v.t = "null" -> FALSE
      [] v.t = "bool" -> v.b
      [] v.t = "num" -> v.n # 0
      [] v.t = "str" -> IF "cs" \in DOMAIN v THEN v.cs # <<>> ELSE v.s # ""
      [] v.t = "list" -> FALSE
      [] v.t = "obj" -> DOMAIN v.f # {}
      [] OTHER -> FALSE

----------------------------------------------------------------------------
(* Outcomes of a Python call, and exceptions.                              *)

Return(v) == [k |-> "return", v |-> v]
Raise(e) == [k |-> "raise", e |-> e]

AttributeError == [exc |-> "AttributeError"]
JSONDecodeError == [exc |-> "JSONDecodeError"]
ToolNotFound(name) == [exc |-> "ValueError", msg |-> "Strumento non trovato: ", arg |-> name]
WarehouseFault(what) == [exc |-> "WarehouseFault", what |-> what]

----------------------------------------------------------------------------
(* Character strings: upper(), substring test, str() of a number.          *)

UpperChar(c) ==
    CASE c = "l" -> "L" [] c = "i" -> "I" [] c = "m" -> "M" [] c = "t" -> "T"
      [] c = "s" -> "S" [] OTHER -> c

\* Case-sensitive mutant of str.upper: leaves the text as it is.
UpperIdentity(cs) == cs
Upper(cs) == [i \in 1..Len(cs) |-> UpperChar(cs[i])]

\* `sub in cs`
Contains(sub, cs) ==
    \E i \in 1..(Len(cs) - Len(sub) + 1) : SubSeq(cs, i, i + Len(sub) - 1) = sub

DigitChar(d) ==
    CASE d = 0 -> "0" [] d = 1 -> "1" [] d = 2 -> "2" [] d = 3 -> "3" [] d = 4 -> "4"
      [] d = 5 -> "5" [] d = 6 -> "6" [] d = 7 -> "7" [] d = 8 -> "8" [] d = 9 -> "9"

RECURSIVE Digits(_)
Digits(n) == IF n < 10 THEN <<DigitChar(n)>> ELSE Digits(n \div 10) \o <<DigitChar(n % 10)>>

\* str(limit) inside the f-string of line 194
PyStr(v) ==
    CASE v.t = "num" -> Digits(v.n)
      [] v.t = "str" -> v.cs
      [] v.t = "bool" -> IF v.b THEN <<"T", "r", "u", "e">> ELSE <<"F", "a", "l", "s", "e">>
      [] v.t = "null" -> <<"N", "o", "n", "e">>

LIMIT == <<"L", "I", "M", "I", "T">>
SpaceLimitSpace == <<" ", "L", "I", "M", "I", "T", " ">>
DefaultLimit == 100

\* Lines 193-194: the text handed to client.query.
FinalQuery(query, limit) ==
    IF ~Contains(LIMIT, Upper(query)) /\ Truthy(limit)
    THEN query \o SpaceLimitSpace \o PyStr(limit)
    ELSE query

----------------------------------------------------------------------------
(* JSON-RPC envelopes and the texts the server formats.                    *)

ResultResponse(request_id, result) ==
    [jsonrpc |-> "2.0", id |-> request_id, result |-> result]
ErrorResponse(request_id, code, message) ==
    [jsonrpc |-> "2.0", id |-> request_id, error |-> [code |-> code, message |-> message]]

MethodNotFoundCode == -32601
InternalErrorCode == -32603

\* Mutant of the message: the method is not named.
MethodNotFoundMessageBlank(method) == [prefix |-> "Metodo non trovato: ", method |-> Null]
\* f'Metodo non trovato: {method}'
MethodNotFoundMessage(method) == [prefix |-> "Metodo non trovato: ", method |-> method]
\* f'Errore interno del server: {str(e)}'
InternalErrorMessage(e) == [prefix |-> "Errore interno del server: ", fault |-> e]
\* f'Errore del server SSE: {str(e)}'
SseErrorMessage(e) == [prefix |-> "Errore del server SSE: ", fault |-> e]

\* {'content': [{'type': 'text', 'text': text}]}
Envelope(text) == [content |-> <<[type |-> "text", text |-> text]>>]

\* Lines 52-65
InitializeResult ==
    [protocolVersion |-> "2024-11-05",
     capabilities |-> [tools |-> EmptyMap],
     serverInfo |-> [name |-> "bigquery-mcp-server", version |-> "1.0.0"]]

\* Lines 72-132.  An inputSchema is modelled by the names of its properties
\* and its 'required' list; list_datasets' schema has no 'required' key.
ToolDescriptors ==
    << [name |-> "query_bigquery",
        inputSchema |-> [type |-> "object", properties |-> {"query", "limit"},
                         required |-> <<"query">>]],
       [name |-> "list_datasets",
        inputSchema |-> [type |-> "object", properties |-> {}]],
       [name |-> "list_tables",
        inputSchema |-> [type |-> "object", properties |-> {"dataset_id"},
                         required |-> <<"dataset_id">>]],
       [name |-> "describe_table",
        inputSchema |-> [type |-> "object", properties |-> {"dataset_id", "table_id"},
                         required |-> <<"dataset_id", "table_id">>]] >>

\* Mutant of the descriptor list: list_tables and describe_table swapped.
ToolsListResultSwapped ==
    [tools |-> <<ToolDescriptors[1], ToolDescriptors[2], ToolDescriptors[4], ToolDescriptors[3]>>]
ToolsListResult == [tools |-> ToolDescriptors]

----------------------------------------------------------------------------
(* handle_mcp_request, lines 42-167.  The coroutine runs from its entry to *)
(* `await self.call_tool(...)` (handle_try), is resumed with the tool's    *)
(* outcome (handle_resume), and its `except Exception` clause is           *)
(* handle_except.                                                          *)

Await(request, tool_name, arguments, request_id) ==
    [k |-> "await", request |-> request, tool_name |-> tool_name,
     arguments |-> arguments, request_id |-> request_id]

\* Lines 45-156, up to the await of line 140.
handle_try(request) ==
    IF ~IsDict(request) THEN Raise(AttributeError)          \* request.get, line 45
    ELSE LET method == DictGet(request, "method", Null)
             params == DictGet(request, "params", EmptyObj)
             request_id == DictGet(request, "id", Null)
         IN  IF method = Str("initialize")
             THEN Return(ResultResponse(request_id, InitializeResult))
             ELSE IF method = Str("tools/list")
             THEN Return(ResultResponse(request_id, ToolsListResult))
             ELSE IF method = Str("tools/call")
             THEN IF ~IsDict(params) THEN Raise(AttributeError)   \* params.get, line 137
                  ELSE Await(request,
                             DictGet(params, "name", Null),
                             DictGet(params, "arguments", EmptyObj),
                             request_id)
             ELSE Return(ErrorResponse(request_id, MethodNotFoundCode,
                                       MethodNotFoundMessage(method)))

\* Mutant of the handler: answers every fault with id null.
handle_except_null_id(request, e) ==
    IF ~IsDict(request) THEN Raise(AttributeError)
    ELSE Return(ErrorResponse(Null, InternalErrorCode, InternalErrorMessage(e)))
\* Mutant of the handler: lets the fault go on to the caller.
handle_except_reraise(request, e) == Raise(e)
\* Lines 158-167.  request.get('id') of line 162 raises in turn when the
\* request is no dict, and that exception leaves handle_mcp_request.
handle_except(request, e) ==
    IF ~IsDict(request) THEN Raise(AttributeError)
    ELSE Return(ErrorResponse(DictGet(request, "id", Null), InternalErrorCode,
                              InternalErrorMessage(e)))

\* Lines 140-146 with the except clause around them: the outcome of
\* handle_mcp_request once call_tool has returned or raised.
handle_resume(l, tool) ==
    IF tool.k = "return"
    THEN Return(ResultResponse(l.request_id, tool.v))
    ELSE handle_except(l.request, tool.e)

\* The outcome of handle_mcp_request when it finishes without awaiting.
handle_no_await(request) ==
    LET h == handle_try(request)
    IN  IF h.k = "raise" THEN handle_except(request, h.e) ELSE h

----------------------------------------------------------------------------
(* The warehouse client.  A tool call gets one answer from the client: a   *)
(* fault raised by its at-th call, or the data of a successful round.      *)

ProjectId == "big-query-instilla"

Fault(what, at) == [a |-> "fault", what |-> what, at |-> at]
NoAnswer == [a |-> "none"]
FaultKinds == {"NotFound", "Forbidden"}

ClientCall(op, arg) == [op |-> op, arg |-> arg]

\* The calls made when the answer is `ans`: all of them, or those up to the
\* one that raised.
CallsMade(all, ans) == IF ans.a = "fault" THEN SubSeq(all, 1, ans.at) ELSE all

\* What a tool method hands back: its outcome and the client calls it made.
ToolOut(o, made) == [out |-> o, calls |-> made]

Range(seq) == {seq[i] : i \in 1..Len(seq)}

----------------------------------------------------------------------------
(* query_bigquery, lines 187-219.                                          *)

QueryOkText(rows) ==
    [fmt |-> "Query eseguita con successo. Righe restituite: {}\n\nRisultati:\n{}",
     count |-> Len(rows), rows |-> rows]
QueryErrorText(e) == [fmt |-> "Errore nell'esecuzione della query: {}", fault |-> e]

QueryAnswers ==
    {Fault(w, at) : w \in FaultKinds, at \in 1..2}
      \cup {[a |-> "rows", rows |-> r] : r \in {<<>>, <<[f0_ |-> 1]>>}}

query_bigquery(args, ans) ==
    IF ~IsDict(args)
    THEN ToolOut(Raise(AttributeError), <<>>)       \* args.get, line 189, outside the try
    ELSE LET query == DictGet(args, "query", Text(<<>>))
             limit == DictGet(args, "limit", Num(DefaultLimit))
         IN  IF ~IsText(query)
             THEN \* query.upper() raises inside the try, before any client call
                  ToolOut(Return(Envelope(QueryErrorText(AttributeError))), <<>>)
             ELSE LET final == FinalQuery(query.cs, limit)
                      all == <<ClientCall("query", Text(final)), ClientCall("result", Null)>>
                  IN  IF ans.a = "fault"
                      THEN ToolOut(Return(Envelope(QueryErrorText(WarehouseFault(ans.what)))),
                                   CallsMade(all, ans))
                      ELSE ToolOut(Return(Envelope(QueryOkText(ans.rows))), all)

----------------------------------------------------------------------------
(* list_datasets_impl, lines 221-262.                                      *)

DatasetIds == {"d1", "d2", "d3"}

\* Listings the warehouse can return: distinct dataset ids, in some order.
Listings ==
    {l \in UNION {[1..n -> DatasetIds] : n \in 0..MaxDatasets} :
        \A i, j \in 1..Len(l) : i # j => l[i] # l[j]}

DatasetAnswers ==
    {Fault(w, 1) : w \in FaultKinds}
      \cup UNION {{[a |-> "datasets", listing |-> l, bad |-> b] : b \in SUBSET Range(l)} :
                     l \in Listings}

\* Lines 230-237: the record of a dataset whose get_dataset returned.
FullRecord(d) ==
    [dataset_id |-> d, project |-> ProjectId, location |-> "EU",
     created |-> "2024-01-01", description |-> "Nessuna descrizione",
     labels |-> EmptyMap]
\* Lines 239-244: the record of a dataset whose get_dataset raised.
ReducedRecord(d, e) ==
    [dataset_id |-> d, project |-> ProjectId, full_name |-> <<ProjectId, d>>,
     error |-> [prefix |-> "Impossibile ottenere dettagli: ", fault |-> e]]

\* Mutant of the inner except: a dataset whose fetch faults is left out.
DatasetEntrySkip(d, bad) == IF d \in bad THEN <<>> ELSE <<FullRecord(d)>>
\* Lines 228-244: what one turn of the loop appends to dataset_info.
DatasetEntry(d, bad) ==
    IF d \in bad
    THEN <<ReducedRecord(d, WarehouseFault("NotFound"))>>
    ELSE <<FullRecord(d)>>

\* Lines 227-244: the loop over the listing.
RECURSIVE DatasetInfo(_, _)
DatasetInfo(listing, bad) ==
    IF listing = <<>> THEN <<>>
    ELSE DatasetEntry(Head(listing), bad) \o DatasetInfo(Tail(listing), bad)

DatasetsOkText(info) == [fmt |-> "Dataset trovati: {}\n\n{}", count |-> Len(info), info |-> info]
DatasetsErrorText(e) == [fmt |-> "Errore nel recuperare i dataset: {}", fault |-> e]

list_datasets_impl(ans) ==
    LET first == <<ClientCall("list_datasets", Null)>>
    IN  IF ans.a = "fault"
        THEN ToolOut(Return(Envelope(DatasetsErrorText(WarehouseFault(ans.what)))), first)
        ELSE ToolOut(Return(Envelope(DatasetsOkText(DatasetInfo(ans.listing, ans.bad)))),
                     first \o [i \in 1..Len(ans.listing) |->
                                  ClientCall("get_dataset", Str(ans.listing[i]))])

----------------------------------------------------------------------------
(* list_tables, lines 264-306.                                             *)

\* A table item of the listing; created and num_rows may be None.
TableItems ==
    {[table_id |-> "t1", table_type |-> "TABLE", created |-> c, num_rows |-> n] :
        c \in {Null, Str("2024-01-01")}, n \in {Null, Num(0)}}

TableAnswers ==
    {Fault(w, at) : w \in FaultKinds, at \in 1..2}
      \cup {[a |-> "tables", tables |-> ts] : ts \in {<<>>} \cup {<<t>> : t \in TableItems}}

\* Lines 274-286: optional fields are left out, not set to null.
TableData(t) ==
    Mk([table_id |-> Str(t.table_id), table_type |-> Str(t.table_type),
        full_name |-> Str(t.table_id),
        created |-> IF Truthy(t.created) THEN t.created ELSE Absent,
        num_rows |-> IF t.num_rows # Null THEN t.num_rows ELSE Absent])

TablesOkText(dataset_id, info) ==
    [fmt |-> "Tabelle nel dataset {}: {}\n\n{}", dataset_id |-> dataset_id,
     count |-> Len(info), info |-> info]
TablesErrorText(e) == [fmt |-> "Errore nel recuperare le tabelle: {}", fault |-> e]

list_tables(args, ans) ==
    IF ~IsDict(args)
    THEN ToolOut(Raise(AttributeError), <<>>)       \* args.get, line 266, outside the try
    ELSE LET dataset_id == DictGet(args, "dataset_id", Null)
             all == <<ClientCall("dataset", dataset_id), ClientCall("list_tables", dataset_id)>>
         IN  IF ans.a = "fault"
             THEN ToolOut(Return(Envelope(TablesErrorText(WarehouseFault(ans.what)))),
                          CallsMade(all, ans))
             ELSE ToolOut(Return(Envelope(TablesOkText(dataset_id,
                              [i \in 1..Len(ans.tables) |-> TableData(ans.tables[i])]))), all)

----------------------------------------------------------------------------
(* describe_table, lines 308-353.                                          *)

TableMeta ==
    [a |-> "table", num_rows |-> 3,
     schema |-> <<[name |-> "c1", type |-> "STRING", mode |-> "NULLABLE",
                   description |-> "Nessuna descrizione"]>>]

DescribeAnswers == {Fault(w, at) : w \in FaultKinds, at \in 1..2} \cup {TableMeta}

DescribeOkText(dataset_id, table_id, meta) ==
    [fmt |-> "Descrizione tabella {}.{}:\n\n{}", dataset_id |-> dataset_id,
     table_id |-> table_id, num_rows |-> meta.num_rows, schema |-> meta.schema]
DescribeErrorText(e) == [fmt |-> "Errore nel descrivere la tabella: {}", fault |-> e]

\* Mutant of describe_table: no try/except around the client calls.
describe_table_uncaught(args, ans) ==
    IF ~IsDict(args) THEN ToolOut(Raise(AttributeError), <<>>)
    ELSE LET dataset_id == DictGet(args, "dataset_id", Null)
             table_id == DictGet(args, "table_id", Null)
             all == <<[op |-> "table", arg |-> dataset_id, arg2 |-> table_id],
                      [op |-> "get_table", arg |-> dataset_id, arg2 |-> table_id]>>
         IN  IF ans.a = "fault"
             THEN ToolOut(Raise(WarehouseFault(ans.what)), CallsMade(all, ans))
             ELSE ToolOut(Return(Envelope(DescribeOkText(dataset_id, table_id, ans))), all)
describe_table(args, ans) ==
    IF ~IsDict(args)
    THEN ToolOut(Raise(AttributeError), <<>>)       \* args.get, line 310, outside the try
    ELSE LET dataset_id == DictGet(args, "dataset_id", Null)
             table_id == DictGet(args, "table_id", Null)
             all == <<[op |-> "table", arg |-> dataset_id, arg2 |-> table_id],
                      [op |-> "get_table", arg |-> dataset_id, arg2 |-> table_id]>>
         IN  IF ans.a = "fault"
             THEN ToolOut(Return(Envelope(DescribeErrorText(WarehouseFault(ans.what)))),
                          CallsMade(all, ans))
             ELSE ToolOut(Return(Envelope(DescribeOkText(dataset_id, table_id, ans))), all)

----------------------------------------------------------------------------
(* call_tool, lines 169-185.  Its except clause logs and re-raises, so the *)
(* outcome of the branch is the outcome of call_tool.                      *)

KnownTools == {"query_bigquery", "list_datasets", "list_tables", "describe_table"}

\* The answers the warehouse can give to the client calls of tool `name`.
AnswersFor(name) ==
    CASE name = Str("query_bigquery") -> QueryAnswers
      [] name = Str("list_datasets") -> DatasetAnswers
      [] name = Str("list_tables") -> TableAnswers
      [] name = Str("describe_table") -> DescribeAnswers
      [] OTHER -> {NoAnswer}

call_tool(name, arguments, ans) ==
    IF name = Str("query_bigquery") THEN query_bigquery(arguments, ans)
    ELSE IF name = Str("list_datasets") THEN list_datasets_impl(ans)
    ELSE IF name = Str("list_tables") THEN list_tables(arguments, ans)
    ELSE IF name = Str("describe_table") THEN describe_table(arguments, ans)
    ELSE ToolOut(Raise(ToolNotFound(name)), <<>>)

----------------------------------------------------------------------------
(* sse_endpoint.event_stream, lines 400-426.                               *)

EmptyBody == [b |-> "empty"]
Garbage == [b |-> "garbage"]            \* bytes that are not UTF-8 JSON
Json(v) == [b |-> "json", v |-> v]      \* the JSON text of value v

\* body.decode('utf-8') and json.loads, line 405
json_loads(b) == IF b.b = "garbage" THEN Raise(JSONDecodeError) ELSE Return(b.v)

Connected == [type |-> "connected"]

\* f"data: {json.dumps(payload)}\n\n"
Frame(payload) == [prefix |-> "data: ", json |-> payload, suffix |-> "\n\n"]

Yield(frame) == [k |-> "yield", frame |-> frame]

\* Mutant of event_stream: no except clause, the fault reaches the HTTP layer.
event_stream_uncaught(e) == Raise(e)
\* Lines 416-426
event_stream_except(e) ==
    Yield(Frame(ErrorResponse(Null, InternalErrorCode, SseErrorMessage(e))))

\* Lines 408-411 and 416-426: what the stream does with the outcome of
\* handle_mcp_request (or of json.loads, when that raised).
StreamStep(out) == IF out.k = "return" THEN Yield(Frame(out.v)) ELSE event_stream_except(out.e)

\* Lines 403-414, from the resumption after `await request.body()` to the
\* first yield or to the await inside handle_mcp_request.
event_stream_read(b) ==
    IF b = EmptyBody THEN Yield(Frame(Connected))
    ELSE LET p == json_loads(b)
         IN  IF p.k = "raise" THEN StreamStep(p)
             ELSE LET h == handle_try(p.v)
                  IN  IF h.k = "await" THEN h ELSE StreamStep(handle_no_await(p.v))

\* Whether event_stream_read enters handle_mcp_request (line 408).
Dispatches(b) == b # EmptyBody /\ json_loads(b).k = "return"

\* Lines 140-146 and 408-411: the stream resumed with the tool's outcome.
event_stream_resume(l, tool) == StreamStep(handle_resume(l, tool))

----------------------------------------------------------------------------
(* Request bodies.                                                         *)

Q1 == <<"S", "E", "L", "E", "C", "T", " ", "1">>
Q1Limit5 == Q1 \o <<" ", "L", "I", "M", "I", "T", " ", "5">>

Ids == {Absent, Null, Num(7), Str("abc")}

QueryArgs ==
    {Mk([query |-> q, limit |-> l]) :
        q \in {Absent, Text(Q1), Text(Q1Limit5), Num(5)},
        l \in {Absent, Null, Num(0), Num(5)}}
TablesArgs == {Mk([dataset_id |-> d]) : d \in {Absent, Str("ds1")}}
DescribeArgs ==
    {Mk([dataset_id |-> d, table_id |-> t]) :
        d \in {Absent, Str("ds1")}, t \in {Absent, Str("t1"), Str("nope")}}

NonDicts == {Null, List}

\* The params of tools/call requests.
CallParams ==
    {Mk([name |-> Str("query_bigquery"), arguments |-> a]) : a \in QueryArgs \cup NonDicts \cup {Absent}}
      \cup {Mk([name |-> Str("list_datasets"), arguments |-> a]) : a \in {Absent, Null, EmptyObj}}
      \cup {Mk([name |-> Str("list_tables"), arguments |-> a]) : a \in TablesArgs \cup NonDicts \cup {Absent}}
      \cup {Mk([name |-> Str("describe_table"), arguments |-> a]) : a \in DescribeArgs \cup NonDicts \cup {Absent}}
      \cup {Mk([name |-> n, arguments |-> a]) : n \in {Absent, Null, Str("drop_table")}, a \in {Absent, EmptyObj}}
      \cup NonDicts \cup {Absent}

OtherParams == {Absent, Null, Mk([name |-> Str("query_bigquery")]), Mk([cursor |-> Num(1)])}

Requests ==
    {Mk([jsonrpc |-> Str("2.0"), id |-> i, method |-> Str("tools/call"), params |-> p]) :
        i \in Ids, p \in CallParams}
      \cup {Mk([jsonrpc |-> Str("2.0"), id |-> i, method |-> m, params |-> p]) :
              i \in Ids, p \in OtherParams,
              m \in {Absent, Null, Str("initialize"), Str("tools/list"), Str("foo/bar")}}

\* JSON texts whose value is no object.
NonRequests == {Null, List, Num(5)}

Bodies == {EmptyBody, Garbage} \cup {Json(v) : v \in Requests \cup NonRequests}

\* Bodies of the requests served concurrently.
ConcCall(i, name, args) ==
    Json(Mk([id |-> Num(i), method |-> Str("tools/call"),
             params |-> Mk([name |-> name, arguments |-> args])]))
ConcBodies ==
    {EmptyBody, Garbage,
     Json(Mk([id |-> Num(1), method |-> Str("tools/list")])),
     Json(Mk([id |-> Num(2), method |-> Str("foo/bar")])),
     ConcCall(2, Str("drop_table"), EmptyObj),
     ConcCall(1, Str("list_tables"), Null)}
      \cup {ConcCall(i, Str("query_bigquery"), Mk([query |-> Text(Q1)])) : i \in 1..2}
      \cup {ConcCall(i, Str("describe_table"),
                     Mk([dataset_id |-> Str("ds1"), table_id |-> Str("nope")])) : i \in 1..2}

\* Query texts assembled from pieces, for the LIMIT heuristic.
Pieces ==
    {Q1, <<" ">>, <<"L", "I", "M", "I", "T">>, <<"l", "i", "m", "i", "t">>,
     <<"L", "i", "M", "i", "T", " ", "5">>, <<"L", "I", "M">>, <<"I", "T">>, <<"i", "t">>}

RECURSIVE Concat(_)
Concat(ps) == IF ps = <<>> THEN <<>> ELSE Head(ps) \o Concat(Tail(ps))

QueryTexts == {Concat(ps) : ps \in UNION {[1..n -> Pieces] : n \in 0..MaxPieces}}
Limits ==
    {Absent, Null, Num(0), Num(5), Num(100), Num(12), Bool(FALSE), Bool(TRUE),
     Text(<<>>), Text(<<"7">>)}

QueryBodies ==
    {Json(Mk([id |-> Num(1), method |-> Str("tools/call"),
              params |-> Mk([name |-> Str("query_bigquery"),
                             arguments |-> Mk([query |-> Text(q), limit |-> l])])])) :
        q \in QueryTexts, l \in Limits}

----------------------------------------------------------------------------
(* The state machine.                                                      *)

Slots == DOMAIN pc

NoLocals == [k |-> "none"]

InitServer == [project_id |-> ProjectId, client |-> "bigquery.Client"]

InitSlots(S) ==
    /\ pc = [r \in S |-> "idle"]
    /\ body = [r \in S |-> EmptyBody]
    /\ locals = [r \in S |-> NoLocals]
    /\ answer = [r \in S |-> NoAnswer]
    /\ calls = [r \in S |-> <<>>]
    /\ dispatched = [r \in S |-> 0]
    /\ frames = [r \in S |-> <<>>]
    /\ server = InitServer

Init == InitSlots({1})
ConcInit == InitSlots(1..NumSlots)

\* POST /sse, lines 396-437: a request arrives on a free connection and its
\* event_stream generator is created.
Post(r, B) ==
    /\ pc[r] = "idle"
    /\ \E b \in B : body' = [body EXCEPT ![r] = b]
    /\ pc' = [pc EXCEPT ![r] = "await_body"]
    /\ UNCHANGED <<locals, answer, calls, dispatched, frames, server>>

\* What a step of the stream leaves behind: a frame and the suspension at the
\* yield, the suspension at the await, or an exception out of the generator.
Advance(r, step) ==
    /\ pc' = [pc EXCEPT ![r] =
                CASE step.k = "yield" -> "yielded"
                  [] step.k = "await" -> "await_tool"
                  [] OTHER -> "http_failure"]
    /\ frames' = [frames EXCEPT ![r] = IF step.k = "yield" THEN Append(@, step.frame) ELSE @]
    /\ locals' = [locals EXCEPT ![r] = IF step.k = "await" THEN step ELSE NoLocals]

\* `await request.body()` returns (line 403) and the stream runs on.
ReadBody(r) ==
    /\ pc[r] = "await_body"
    /\ Advance(r, event_stream_read(body[r]))
    /\ dispatched' = [dispatched EXCEPT ![r] = IF Dispatches(body[r]) THEN @ + 1 ELSE @]
    /\ UNCHANGED <<body, answer, calls, server>>

\* Mutant of the coroutine's locals: one register shared by all requests.
ResumeLocalsShared(r) == locals[CHOOSE s \in Slots : pc[s] = "await_tool"]
\* The locals of handle_mcp_request (request, tool_name, arguments,
\* request_id) that its coroutine holds across the await of line 140.
ResumeLocals(r) == locals[r]

\* `await self.call_tool(...)` (line 140): the tool runs against the
\* warehouse, handle_mcp_request returns and the stream yields its frame.
CallTool(r) ==
    /\ pc[r] = "await_tool"
    /\ LET l == ResumeLocals(r)
       IN  \E ans \in AnswersFor(l.tool_name) :
              LET tool == call_tool(l.tool_name, l.arguments, ans)
              IN  /\ Advance(r, event_stream_resume(l, tool.out))
                  /\ answer' = [answer EXCEPT ![r] = ans]
                  /\ calls' = [calls EXCEPT ![r] = tool.calls]
    /\ UNCHANGED <<body, dispatched, server>>

\* The generator is resumed after its yield and ends (lines 411, 414, 426).
EndStream(r) ==
    /\ pc[r] = "yielded"
    /\ pc' = [pc EXCEPT ![r] = "closed"]
    /\ UNCHANGED <<body, locals, answer, calls, dispatched, frames, server>>

\* The response is complete (line 428): the connection is free again and
\* everything the request created is dropped.
Discard(r) ==
    /\ pc[r] \in {"closed", "http_failure"}
    /\ pc' = [pc EXCEPT ![r] = "idle"]
    /\ body' = [body EXCEPT ![r] = EmptyBody]
    /\ locals' = [locals EXCEPT ![r] = NoLocals]
    /\ answer' = [answer EXCEPT ![r] = NoAnswer]
    /\ calls' = [calls EXCEPT ![r] = <<>>]
    /\ dispatched' = [dispatched EXCEPT ![r] = 0]
    /\ frames' = [frames EXCEPT ![r] = <<>>]
    /\ UNCHANGED server

Next ==
    \/ \E r \in Slots : Post(r, Bodies)
    \/ \E r \in Slots : ReadBody(r)
    \/ \E r \in Slots : CallTool(r)
    \/ \E r \in Slots : EndStream(r)
    \/ \E r \in Slots : Discard(r)

Spec == Init /\ [][Next]_vars

\* The event loop resumes every coroutine that can run, and the warehouse
\* answers every call (it returns or faults).
Fairness ==
    /\ WF_vars(ReadBody(1))
    /\ WF_vars(CallTool(1))
    /\ WF_vars(EndStream(1))

FairSpec == Spec /\ Fairness

ConcNext ==
    \/ \E r \in Slots : Post(r, ConcBodies)
    \/ \E r \in Slots : ReadBody(r)
    \/ \E r \in Slots : CallTool(r)
    \/ \E r \in Slots : EndStream(r)
    \/ \E r \in Slots : Discard(r)

ConcSpec == ConcInit /\ [][ConcNext]_vars

QueryNext ==
    \/ \E r \in Slots : Post(r, QueryBodies)
    \/ \E r \in Slots : ReadBody(r)
    \/ \E r \in Slots : CallTool(r)
    \/ \E r \in Slots : EndStream(r)
    \/ \E r \in Slots : Discard(r)

QuerySpec == Init /\ [][QueryNext]_vars

----------------------------------------------------------------------------
(* Reading a request and its response back from the state.                 *)

\* The request's stream has passed handle_mcp_request (or never enters it).
Answered(r) == pc[r] \in {"yielded", "closed", "http_failure"}

\* The body parsed to a request object.
ParsedRequest(b) == b.b = "json" /\ b.v.t = "obj"

HasKey(b, key) == key \in DOMAIN b.v.f
FieldOf(b, key) == b.v.f[key]

\* The 'id' member of the request, null when it has none.
RequestIdOf(b) == IF HasKey(b, "id") THEN FieldOf(b, "id") ELSE Null
MethodOf(b) == IF HasKey(b, "method") THEN FieldOf(b, "method") ELSE Null

IsToolsCall(b) == ParsedRequest(b) /\ MethodOf(b) = Str("tools/call")
HasParamsObject(b) == HasKey(b, "params") /\ FieldOf(b, "params").t = "obj"
\* params as a map: the given object, else the empty map.
ParamsMap(b) == IF HasParamsObject(b) THEN FieldOf(b, "params").f ELSE EmptyMap
ParamsUsable(b) == ~HasKey(b, "params") \/ HasParamsObject(b)
ToolNameOf(b) == IF "name" \in DOMAIN ParamsMap(b) THEN ParamsMap(b)["name"] ELSE Null
HasArguments(b) == "arguments" \in DOMAIN ParamsMap(b)
ArgumentsOf(b) == ParamsMap(b)["arguments"]
\* The keys the request's arguments give: none when they are no object.
ArgumentKeys(b) ==
    IF HasArguments(b) /\ ArgumentsOf(b).t = "obj" THEN DOMAIN ArgumentsOf(b).f ELSE {}

\* A tools/call request that names one of the four tools.
IsKnownToolCall(b) ==
    /\ IsToolsCall(b)
    /\ ParamsUsable(b)
    /\ ToolNameOf(b) \in {Str(n) : n \in KnownTools}

\* The JSON of the i-th frame of request r.
Payload(r, i) == frames[r][i].json
IsResult(resp) == "result" \in DOMAIN resp /\ "error" \notin DOMAIN resp
IsError(resp) == "error" \in DOMAIN resp /\ "result" \notin DOMAIN resp
IsEnvelope(result) ==
    /\ DOMAIN result = {"content"}
    /\ Len(result.content) = 1
    /\ DOMAIN result.content[1] = {"type", "text"}
    /\ result.content[1].type = "text"

----------------------------------------------------------------------------
(* C1.  Every JSON-RPC response to a POST /sse request with a non-empty    *)
(* body holds exactly one of 'result' and 'error', and its id is the       *)
(* request's id when the body parsed to a request object, null otherwise.  *)

C1_ResponseShape ==
    \A r \in Slots :
        body[r] # EmptyBody =>
            \A i \in 1..Len(frames[r]) :
                LET resp == Payload(r, i)
                IN  /\ ("result" \in DOMAIN resp) # ("error" \in DOMAIN resp)
                    /\ "id" \in DOMAIN resp
                    /\ resp.id = IF ParsedRequest(body[r]) THEN RequestIdOf(body[r]) ELSE Null

\* A dispatch fault of a request with id 7 answered with an error carrying 7.
C1_Witness ==
    \E r \in Slots :
        /\ pc[r] = "closed"
        /\ IsToolsCall(body[r])
        /\ RequestIdOf(body[r]) = Num(7)
        /\ Len(frames[r]) = 1
        /\ IsError(Payload(r, 1))
        /\ Payload(r, 1).id = Num(7)

----------------------------------------------------------------------------
(* C2.  A tools/call of one of the four tools is answered with a JSON-RPC  *)
(* 'result' holding a content envelope, whose text carries the error when  *)
(* the warehouse client faulted; never with an 'error' object and never    *)
(* with an HTTP-level failure.                                             *)

\* The response is a result holding one text envelope.
EnvelopeAnswer(r) ==
    /\ pc[r] # "http_failure"
    /\ Len(frames[r]) = 1
    /\ IsResult(Payload(r, 1))
    /\ IsEnvelope(Payload(r, 1).result)

\* The envelope's text carries the fault the warehouse client raised.
CarriesFault(r) ==
    (answer[r].a = "fault" /\ calls[r] # <<>>) =>
        LET text == Payload(r, 1).result.content[1].text
        IN  /\ "fault" \in DOMAIN text
            /\ text.fault = [exc |-> "WarehouseFault", what |-> answer[r].what]

\* C2 as claimed: for every arguments value.
C2_AnyArguments ==
    \A r \in Slots :
        (Answered(r) /\ IsKnownToolCall(body[r])) => (EnvelopeAnswer(r) /\ CarriesFault(r))

\* The arguments are an object, or are not given (call_tool then gets {}),
\* or the tool is list_datasets, which is not handed its arguments.
ArgumentsAreMapping(b) ==
    \/ ~HasArguments(b)
    \/ ArgumentsOf(b).t = "obj"
    \/ ToolNameOf(b) = Str("list_datasets")

\* C2 as amended: for every arguments value that is a JSON object.
C2_MappingArguments ==
    \A r \in Slots :
        (Answered(r) /\ IsKnownToolCall(body[r]) /\ ArgumentsAreMapping(body[r]))
            => (EnvelopeAnswer(r) /\ CarriesFault(r))

\* describe_table of a table the warehouse does not have: get_table raised
\* NotFound and the answer is a result envelope.
C2_Witness ==
    \E r \in Slots :
        /\ pc[r] = "closed"
        /\ IsKnownToolCall(body[r])
        /\ ToolNameOf(body[r]) = Str("describe_table")
        /\ ArgumentKeys(body[r]) = {"dataset_id", "table_id"}
        /\ answer[r] = [a |-> "fault", what |-> "NotFound", at |-> 2]
        /\ Len(calls[r]) = 2
        /\ EnvelopeAnswer(r)
        /\ Payload(r, 1).result.content[1].text.fault.what = "NotFound"

----------------------------------------------------------------------------
(* C3.  A request whose method is none of initialize, tools/list and       *)
(* tools/call is answered with error -32601, the message naming the        *)
(* method, the request's id echoed, and no warehouse client call made.     *)

KnownMethods == {Str("initialize"), Str("tools/list"), Str("tools/call")}

C3_UnknownMethod ==
    \A r \in Slots :
        (pc[r] \notin {"idle", "await_body"} /\ ParsedRequest(body[r])
           /\ MethodOf(body[r]) \notin KnownMethods)
        => /\ Answered(r)
           /\ pc[r] # "http_failure"
           /\ Len(frames[r]) = 1
           /\ IsError(Payload(r, 1))
           /\ Payload(r, 1).error.code = -32601
           /\ Payload(r, 1).error.message.method = MethodOf(body[r])
           /\ Payload(r, 1).id = RequestIdOf(body[r])
           /\ calls[r] = <<>>
           /\ answer[r] = NoAnswer

\* "foo/bar" with id 7 answered.
C3_Witness ==
    \E r \in Slots :
        /\ pc[r] = "closed"
        /\ ParsedRequest(body[r])
        /\ MethodOf(body[r]) = Str("foo/bar")
        /\ RequestIdOf(body[r]) = Num(7)
        /\ Payload(r, 1).error.code = -32601
        /\ Payload(r, 1).id = Num(7)

----------------------------------------------------------------------------
(* C5.  When the listing succeeds, list_datasets returns one entry per     *)
(* listed dataset, in listing order: the extended record when the          *)
(* dataset's fetch succeeded, the reduced record with an 'error' field     *)
(* when it faulted; a fault on one dataset neither removes nor alters the  *)
(* entries of the others, and the call does not raise.                     *)

ExtendedKeys == {"dataset_id", "project", "location", "created", "description", "labels"}
ReducedKeys == {"dataset_id", "project", "full_name", "error"}

\* The request listed datasets and the listing itself succeeded.
ListedDatasets(r) ==
    /\ Answered(r)
    /\ IsKnownToolCall(body[r])
    /\ ToolNameOf(body[r]) = Str("list_datasets")
    /\ answer[r].a = "datasets"

\* The entry the dataset gets when no fetch faults at all.
UnfaultedEntry(d) ==
    [dataset_id |-> d, project |-> "big-query-instilla", location |-> "EU",
     created |-> "2024-01-01", description |-> "Nessuna descrizione",
     labels |-> [k \in {} |-> Null]]

C5_PerDatasetIsolation ==
    \A r \in Slots :
        ListedDatasets(r) =>
            /\ EnvelopeAnswer(r)
            /\ LET text == Payload(r, 1).result.content[1].text
                   listing == answer[r].listing
               IN  /\ DOMAIN text = {"fmt", "count", "info"}
                   /\ text.count = Len(listing)
                   /\ Len(text.info) = Len(listing)
                   /\ \A i \in 1..Len(listing) :
                         /\ text.info[i].dataset_id = listing[i]
                         /\ listing[i] \in answer[r].bad =>
                               DOMAIN text.info[i] = ReducedKeys
                         /\ listing[i] \notin answer[r].bad =>
                               /\ DOMAIN text.info[i] = ExtendedKeys
                               /\ text.info[i] = UnfaultedEntry(listing[i])

\* Two datasets listed, the fetch of exactly one of them faulted.
C5_Witness ==
    \E r \in Slots :
        /\ pc[r] = "closed"
        /\ ListedDatasets(r)
        /\ Len(answer[r].listing) = 2
        /\ Cardinality(answer[r].bad) = 1
        /\ Len(Payload(r, 1).result.content[1].text.info) = 2

----------------------------------------------------------------------------
(* C7.  tools/list returns, whatever its params, the same four descriptors *)
(* in the order query_bigquery, list_datasets, list_tables,                *)
(* describe_table with their required keys; tools/list and initialize call *)
(* the warehouse client not at all and leave the server's state unchanged. *)

\* The 'required' list of a descriptor, empty when its schema has none.
RequiredOf(tool) ==
    IF "required" \in DOMAIN tool.inputSchema THEN tool.inputSchema.required ELSE <<>>

C7_StaticToolList ==
    /\ server = [project_id |-> "big-query-instilla", client |-> "bigquery.Client"]
    /\ \A r \in Slots :
          (pc[r] \notin {"idle", "await_body"} /\ ParsedRequest(body[r])
             /\ MethodOf(body[r]) \in {Str("initialize"), Str("tools/list")})
          => /\ Answered(r)
             /\ calls[r] = <<>>
             /\ answer[r] = NoAnswer
             /\ Len(frames[r]) = 1
             /\ IsResult(Payload(r, 1))
             /\ MethodOf(body[r]) = Str("tools/list") =>
                   LET tools == Payload(r, 1).result.tools
                   IN  /\ [i \in 1..Len(tools) |-> tools[i].name]
                            = <<"query_bigquery", "list_datasets", "list_tables", "describe_table">>
                       /\ [i \in 1..Len(tools) |-> RequiredOf(tools[i])]
                            = << <<"query">>, <<>>, <<"dataset_id">>, <<"dataset_id", "table_id">> >>
                       /\ "required" \notin DOMAIN tools[2].inputSchema

\* tools/list with params that name a tool, answered.
C7_Witness ==
    \E r \in Slots :
        /\ pc[r] = "closed"
        /\ ParsedRequest(body[r])
        /\ MethodOf(body[r]) = Str("tools/list")
        /\ HasParamsObject(body[r])
        /\ Len(Payload(r, 1).result.tools) = 4

----------------------------------------------------------------------------
(* C8.  A fault raised while dispatching becomes a JSON-RPC error -32603   *)
(* carrying the fault's description and never an HTTP-level failure: a     *)
(* tools/call of an unknown tool raises in call_tool and is answered by    *)
(* the dispatcher's handler with the request's id; a body that does not    *)
(* parse to a request object is answered with id null.                     *)

\* The single response is error -32603 with the given id and fault.
InternalErrorAnswer(r, id, fault) ==
    /\ Len(frames[r]) = 1
    /\ IsError(Payload(r, 1))
    /\ Payload(r, 1).error.code = -32603
    /\ Payload(r, 1).id = id
    /\ Payload(r, 1).error.message.fault = fault

UnknownToolFault(name) ==
    [exc |-> "ValueError", msg |-> "Strumento non trovato: ", arg |-> name]

C8_FaultsBecomeInternalError ==
    \A r \in Slots :
        /\ pc[r] # "http_failure"
        /\ (Answered(r) /\ IsToolsCall(body[r]) /\ ParamsUsable(body[r])
              /\ ToolNameOf(body[r]) \notin {Str(n) : n \in KnownTools})
           => /\ InternalErrorAnswer(r, RequestIdOf(body[r]), UnknownToolFault(ToolNameOf(body[r])))
              /\ Payload(r, 1).error.message.prefix = "Errore interno del server: "
              /\ calls[r] = <<>>
        /\ (Answered(r) /\ IsToolsCall(body[r]) /\ ~ParamsUsable(body[r]))
           => InternalErrorAnswer(r, RequestIdOf(body[r]), [exc |-> "AttributeError"])
        /\ (Answered(r) /\ body[r] = Garbage)
           => InternalErrorAnswer(r, Null, [exc |-> "JSONDecodeError"])
        /\ (Answered(r) /\ body[r].b = "json" /\ ~ParsedRequest(body[r]))
           => InternalErrorAnswer(r, Null, [exc |-> "AttributeError"])
        /\ (Answered(r) /\ body[r] # EmptyBody /\ IsError(Payload(r, 1))
              /\ Payload(r, 1).error.code # -32601)
           => Payload(r, 1).error.code = -32603

\* drop_table called with id 7: answered -32603 with id 7.
C8_Witness ==
    \E r \in Slots :
        /\ pc[r] = "closed"
        /\ IsToolsCall(body[r])
        /\ ToolNameOf(body[r]) = Str("drop_table")
        /\ RequestIdOf(body[r]) = Num(7)
        /\ InternalErrorAnswer(r, Num(7), UnknownToolFault(Str("drop_table")))

----------------------------------------------------------------------------
(* C9.  A tools/call whose arguments lack a required key of the named tool *)
(* does not reach the warehouse client.                                    *)

RequiredKeys(name) ==
    CASE name = Str("query_bigquery") -> {"query"}
      [] name = Str("list_tables") -> {"dataset_id"}
      [] name = Str("describe_table") -> {"dataset_id", "table_id"}
      [] OTHER -> {}

C9_RequiredKeysValidated ==
    \A r \in Slots :
        (IsKnownToolCall(body[r])
           /\ ~(RequiredKeys(ToolNameOf(body[r])) \subseteq ArgumentKeys(body[r])))
        => calls[r] = <<>>

----------------------------------------------------------------------------
(* C6.  Every POST /sse request, whatever its body, produces exactly one   *)
(* frame and then its stream ends, once the warehouse has answered; for an *)
(* empty body the frame is {'type': 'connected'} and neither the           *)
(* dispatcher nor the warehouse client is invoked.                         *)

WellFormedFrame(f) ==
    /\ DOMAIN f = {"prefix", "json", "suffix"}
    /\ f.prefix = "data: "
    /\ f.suffix = "\n\n"

C6_FrameCount ==
    /\ pc[1] # "http_failure"
    /\ Len(frames[1]) <= 1
    /\ \A i \in 1..Len(frames[1]) : WellFormedFrame(frames[1][i])
    /\ pc[1] \in {"yielded", "closed"} => Len(frames[1]) = 1
    /\ pc[1] \in {"await_body", "await_tool"} => Len(frames[1]) = 0
    /\ (pc[1] \in {"yielded", "closed"} /\ body[1] = EmptyBody) =>
          /\ frames[1][1].json = [type |-> "connected"]
          /\ dispatched[1] = 0
          /\ calls[1] = <<>>

C6_ExactlyOneFrame ==
    /\ []C6_FrameCount
    /\ (pc[1] = "await_body") ~> (pc[1] = "closed" /\ Len(frames[1]) = 1)
    /\ [][pc[1] = "closed" => frames'[1] = <<>>]_vars

\* The stream of an empty-body request has ended after its connected frame.
C6_Witness ==
    /\ pc[1] = "closed"
    /\ body[1] = EmptyBody
    /\ frames[1] = <<[prefix |-> "data: ", json |-> [type |-> "connected"], suffix |-> "\n\n"]>>

----------------------------------------------------------------------------
(* C10.  Requests served concurrently share nothing but the client handle: *)
(* under every interleaving each request's single response carries its own *)
(* id and the payload it would get if served alone against the same        *)
(* warehouse answer, and a fault in one request changes nothing of any     *)
(* other request and does not keep the server from taking later requests.  *)

\* The stream of a request with body b served alone, the warehouse
\* answering ans: event_stream run from end to end.
ServedAlone(b, ans) ==
    LET first == event_stream_read(b)
    IN  IF first.k = "await"
        THEN event_stream_resume(first, call_tool(first.tool_name, first.arguments, ans).out)
        ELSE first

C10_OwnResponse ==
    \A r \in Slots :
        /\ pc[r] # "http_failure"
        /\ pc[r] \in {"yielded", "closed"} =>
              /\ Len(frames[r]) = 1
              /\ ServedAlone(body[r], answer[r]) = [k |-> "yield", frame |-> frames[r][1]]
              /\ ParsedRequest(body[r]) => Payload(r, 1).id = RequestIdOf(body[r])
              /\ (body[r] # EmptyBody /\ ~ParsedRequest(body[r])) => Payload(r, 1).id = Null
        /\ pc[r] = "closed" => ENABLED Discard(r)
        /\ pc[r] = "idle" => ENABLED Post(r, ConcBodies)

\* A step moves one request and leaves every other request as it was.
C10_OthersUntouched ==
    \A r \in Slots :
        pc'[r] = pc[r] =>
            /\ body'[r] = body[r]
            /\ locals'[r] = locals[r]
            /\ answer'[r] = answer[r]
            /\ calls'[r] = calls[r]
            /\ frames'[r] = frames[r]
            /\ dispatched'[r] = dispatched[r]

C10_Isolation == []C10_OwnResponse /\ [][C10_OthersUntouched]_vars

\* Two tool calls in flight at once, one of which ended in a dispatch fault
\* with id 2 while the other got its result with id 1.
C10_Witness ==
    \E r, s \in Slots :
        /\ r # s
        /\ pc[r] = "yielded" /\ pc[s] = "yielded"
        /\ dispatched[r] = 1 /\ dispatched[s] = 1
        /\ IsToolsCall(body[r]) /\ IsToolsCall(body[s])
        /\ RequestIdOf(body[r]) = Num(1) /\ RequestIdOf(body[s]) = Num(2)
        /\ IsResult(Payload(r, 1)) /\ Payload(r, 1).id = Num(1)
        /\ IsError(Payload(s, 1)) /\ Payload(s, 1).id = Num(2)

----------------------------------------------------------------------------
(* C4.  query_bigquery submits the query text with ' LIMIT <limit>'        *)
(* appended (100 when no limit is passed) when the text does not contain   *)
(* LIMIT in any letter case, and submits the text unchanged, with no       *)
(* second limit, when it does.                                             *)

\* LIMIT occurs in the text at position i, in any mix of letter cases.
LimitAt(q, i) ==
    /\ q[i] \in {"L", "l"}
    /\ q[i + 1] \in {"I", "i"}
    /\ q[i + 2] \in {"M", "m"}
    /\ q[i + 3] \in {"I", "i"}
    /\ q[i + 4] \in {"T", "t"}
HasLimit(q) == \E i \in 1..(Len(q) - 4) : LimitAt(q, i)

\* The text Python's str() gives for the limits the requests pass.
LimitText(l) ==
    CASE l = Null -> <<"N", "o", "n", "e">>
      [] l = Bool(FALSE) -> <<"F", "a", "l", "s", "e">>
      [] l = Bool(TRUE) -> <<"T", "r", "u", "e">>
      [] l = Text(<<>>) -> <<>>
      [] l = Text(<<"7">>) -> <<"7">>
      [] l = Num(0) -> <<"0">>
      [] l = Num(5) -> <<"5">>
      [] l = Num(12) -> <<"1", "2">>
      [] l = Num(100) -> <<"1", "0", "0">>

\* A query_bigquery call whose query is a text has been run.
QueryRun(r) ==
    /\ Answered(r)
    /\ IsKnownToolCall(body[r])
    /\ ToolNameOf(body[r]) = Str("query_bigquery")
    /\ "query" \in ArgumentKeys(body[r])
    /\ "cs" \in DOMAIN ArgumentsOf(body[r]).f["query"]

QueryGiven(r) == ArgumentsOf(body[r]).f["query"].cs
LimitPassed(r) == "limit" \in ArgumentKeys(body[r])
LimitGiven(r) == ArgumentsOf(body[r]).f["limit"]
\* The text handed to client.query, the first client call.
Submitted(r) == calls[r][1].arg.cs

\* The limit in force: the one passed, 100 when none is.
LimitInForce(r) == IF LimitPassed(r) THEN LimitGiven(r) ELSE Num(100)

\* The text with the limit clause appended.
WithLimit(q, l) == q \o <<" ", "L", "I", "M", "I", "T", " ">> \o LimitText(l)

\* C4 as claimed: for every limit argument.
C4_AnyLimit ==
    \A r \in Slots :
        QueryRun(r) =>
            /\ calls[r] # <<>>
            /\ calls[r][1].op = "query"
            /\ Submitted(r) =
                  IF HasLimit(QueryGiven(r)) THEN QueryGiven(r)
                  ELSE WithLimit(QueryGiven(r), LimitInForce(r))

\* The limit in force is one Python takes as false: null, 0, false, "".
LimitIsFalsy(r) == LimitInForce(r) \in {Null, Num(0), Bool(FALSE), Text(<<>>)}

\* C4 as amended: the limit is appended when the text has no LIMIT and the
\* limit is not falsy; otherwise the text is submitted unchanged.
C4_TruthyLimit ==
    \A r \in Slots :
        QueryRun(r) =>
            /\ calls[r] # <<>>
            /\ calls[r][1].op = "query"
            /\ Submitted(r) =
                  IF HasLimit(QueryGiven(r)) \/ LimitIsFalsy(r) THEN QueryGiven(r)
                  ELSE WithLimit(QueryGiven(r), LimitInForce(r))

\* "SELECT 1" without a limit was submitted as "SELECT 1 LIMIT 100".
C4_Witness ==
    \E r \in Slots :
        /\ QueryRun(r)
        /\ ~LimitPassed(r)
        /\ QueryGiven(r) = <<"S", "E", "L", "E", "C", "T", " ", "1">>
        /\ Submitted(r) = <<"S", "E", "L", "E", "C", "T", " ", "1", " ", "L", "I", "M", "I", "T", " ", "1", "0", "0">>

\* "SELECT 1 LIMIT 5" was submitted as it is.
C4_WitnessUnchanged ==
    \E r \in Slots :
        /\ QueryRun(r)
        /\ QueryGiven(r) = <<"S", "E", "L", "E", "C", "T", " ", "1", " ", "L", "i", "M", "i", "T", " ", "5">>
        /\ Submitted(r) = QueryGiven(r)

====
